---- MODULE Spec2Model ----
(***************************************************************************)
(* A model of the stateful and algorithmic parts of CPC_audio:             *)
(*   - cpc/utils/misc.py      SchedulerCombiner                            *)
(*   - cpc/feature_loader.py  buildFeature, buildFeature_batch, loadModel  *)
(*   - cpc/model.py           CPCModel.forward (its signature),            *)
(*                            CPCModelNullspace, ConcatenatedModel         *)
(*   - train.py               loadModel, getAR                             *)
(* Each part has its own variables and its own specification (SpecSched,   *)
(* SpecFeat, SpecLoad); the variables of the other parts stay at their     *)
(* initial values.                                                         *)
(***************************************************************************)
EXTENDS Integers, Sequences, FiniteSets, TLC

VARIABLES
    \* ---- SchedulerCombiner (cpc/utils/misc.py) ----
    ctorArgs,         \* arguments of the last constructor call
    schedStatus,      \* "new" | "ok" | "ValueError" | "IndexError"
    nSchedulers,      \* len(self.scheduler_list)
    activation_step,  \* self.activation_step
    curr_step,        \* self.curr_step
    stepIndex,        \* index computed by the last step() call
    stepped,          \* schedulers stepped by the last step() call, in call order
    stepCalls,        \* number of step() calls made
    \* ---- buildFeature / buildFeature_batch (cpc/feature_loader.py) ----
    fn,               \* "none" | "buildFeature" | "buildFeature_batch"
    pc,               \* position in the running function
    sizeSeq,          \* seq.size(1)
    maxSizeSeq,
    downsampling,     \* featureMaker.getDownsamplingFactor()
    strict,
    batch_size,
    start,            \* buildFeature: start ; buildFeature_batch: batch_idx
    out,              \* frames of every tensor appended to out, in order
    calls,            \* every call of featureMaker: [lo, hi, rows]
    result,           \* frames of the returned tensor (dimension 1)
    \* ---- loadModel (cpc/feature_loader.py, train.py) and the wrappers ----
    ckpt,             \* checkpoint directory -> its saved configuration
    loadCall,         \* the top-level loadModel call made
    loadRes,          \* what that call returned or raised
    fwdRes,           \* what forward() of the returned model did
    \* ---- boundary detectors (cpc/utils/misc.py) ----
    segFn,            \* "none" | "kreuk" | "jch" | "jhu"
    segPc,            \* position in the running detector, or what it raised
    batchSize,        \* encodedData.size(0)
    seqLen,           \* encodedData.size(1)
    idx,              \* the boundary indices
    final_length,
    step_reduction,   \* <<numerator, denominator>>
    minLengthSeq,
    justSegmenter,
    cutpoints,
    compressed_lens,
    seq_idx,
    shortI,           \* the too short element being handled
    shortJ,           \* j of "for j in range(cuts2Add)"
    \* ---- epoch schedules of CPCModel (cpc/model.py) ----
    hierARshorten,        \* <<numerator, denominator>>
    hierARgradualStart,
    normPc,               \* "idle" | "done": gradualTrainingNormalize
    normArgs,             \* its epochNrs and the lengths of part1, part2
    partOfEpochs,
    part1Out,             \* length of the returned part1
    part2Out,             \* length of the returned part2, or NaN
    shortPc,              \* "idle" | "done": the shortening of forward
    shortEpochNrs,
    shortening,
    \* ---- pushing to the closest centre (cpc/model.py, cpc/utils/misc.py) ----
    pushFn,               \* "none" | "_FCMlikeBelong" | "pushToClosestForBatch"
    pushPc,               \* "idle" | "done" | "AssertionError"
    pushArgs,             \* the point, the centres, the degree, the mode
    closest,              \* dists.argmin(-1), counted from 0
    pushRes,              \* the returned point
    \* ---- getCheckpointData (cpc/feature_loader.py) ----
    pathDir,              \* what the file system holds at pathDir
    noLoadPossible,       \* the argument of the call
    cpPc,                 \* "idle" | "returned" | "raised"
    cpRes                 \* the returned value or the raised exception

schedVars == <<ctorArgs, schedStatus, nSchedulers, activation_step, curr_step,
               stepIndex, stepped, stepCalls>>
featVars == <<fn, pc, sizeSeq, maxSizeSeq, downsampling, strict, batch_size,
              start, out, calls, result>>
loadVars == <<ckpt, loadCall, loadRes, fwdRes>>
segVars == <<segFn, segPc, batchSize, seqLen, idx, final_length, step_reduction,
             minLengthSeq, justSegmenter, cutpoints, compressed_lens, seq_idx,
             shortI, shortJ>>
epochVars == <<hierARshorten, hierARgradualStart, normPc, normArgs,
               partOfEpochs, part1Out, part2Out, shortPc, shortEpochNrs,
               shortening>>
pushVars == <<pushFn, pushPc, pushArgs, closest, pushRes>>
cpVars == <<pathDir, noLoadPossible, cpPc, cpRes>>
restVars == <<segVars, epochVars, pushVars, cpVars>>
vars == <<schedVars, featVars, loadVars, restVars>>

Min(a, b) == IF a < b THEN a ELSE b

RECURSIVE SumSeq(_)
SumSeq(s) == IF s = <<>> THEN 0 ELSE Head(s) + SumSeq(Tail(s))

(***************************************************************************)
(* Bounds of the model.                                                    *)
(***************************************************************************)
MaxSched == 3
MaxAct == 3
MaxStepCalls == 4

(***************************************************************************)
(* SchedulerCombiner                                                       *)
(***************************************************************************)
SchedIdle ==
    /\ ctorArgs = [n |-> 0, activation_step |-> <<>>, curr_step |-> 0]
    /\ schedStatus = "new"
    /\ nSchedulers = 0
    /\ activation_step = <<>>
    /\ curr_step = 0
    /\ stepIndex = 0
    /\ stepped = <<>>
    /\ stepCalls = 0

\* All sequences over S of length 0..n.
SeqsUpTo(S, n) == UNION {[1..k -> S] : k \in 0..n}

\* bisect.bisect_left(a, x) of the standard library: the binary search itself,
\* on whatever list it is given (a is 1-based here, lo and hi are 0-based).
RECURSIVE BisectLoop(_, _, _, _)
BisectLoop(a, x, lo, hi) ==
    IF lo < hi
    THEN LET mid == (lo + hi) \div 2
         IN  IF a[mid + 1] < x
             THEN BisectLoop(a, x, mid + 1, hi)
             ELSE BisectLoop(a, x, lo, mid)
    ELSE lo

bisect_left(a, x) == BisectLoop(a, x, 0, Len(a))

\* bisect.bisect_right: the search with <= in place of <.
RECURSIVE BisectRightLoop(_, _, _, _)
BisectRightLoop(a, x, lo, hi) ==
    IF lo < hi
    THEN LET mid == (lo + hi) \div 2
         IN  IF x < a[mid + 1]
             THEN BisectRightLoop(a, x, lo, mid)
             ELSE BisectRightLoop(a, x, mid + 1, hi)
    ELSE lo

\* The first-activation check of __init__ (a is not empty).
FirstActivationTooHighDoc(a, c) == ~(c < a[1])
FirstActivationTooHigh(a, c) == a[1] > c

\* SchedulerCombiner.__init__(scheduler_list, activation_step, curr_step)
\* with len(scheduler_list) = n.
SchedInit(n, a, c) ==
    /\ schedStatus = "new"
    /\ ctorArgs' = [n |-> n, activation_step |-> a, curr_step |-> c]
    /\ IF n # Len(a)
       THEN /\ schedStatus' = "ValueError"
            /\ UNCHANGED <<nSchedulers, activation_step, curr_step>>
       ELSE IF Len(a) = 0
       THEN /\ schedStatus' = "IndexError"     \* activation_step[0] of []
            /\ UNCHANGED <<nSchedulers, activation_step, curr_step>>
       ELSE IF FirstActivationTooHigh(a, c)
       THEN /\ schedStatus' = "ValueError"
            /\ UNCHANGED <<nSchedulers, activation_step, curr_step>>
       ELSE /\ schedStatus' = "ok"
            /\ nSchedulers' = n
            /\ activation_step' = a
            /\ curr_step' = c
    /\ UNCHANGED <<stepIndex, stepped, stepCalls>>

\* index = bisect_left(self.activation_step, self.curr_step) - 1
StepIndexRight(a, x) == BisectRightLoop(a, x, 0, Len(a)) - 1
StepIndex(a, x) == bisect_left(a, x) - 1

\* reversed(range(index, n)): n-1, n-2, ..., index.
RECURSIVE ReversedRange(_, _)
ReversedRange(index, n) ==
    IF index >= n THEN <<>> ELSE <<n - 1>> \o ReversedRange(index, n - 1)

\* scheduler_list[i]: a negative i counts from the end of the list.
ListIndex(i, n) == IF i < 0 THEN n + i ELSE i

\* SchedulerCombiner.step()
SchedStep ==
    /\ schedStatus = "ok"
    /\ stepCalls < MaxStepCalls
    /\ LET x == curr_step + 1
           index == StepIndex(activation_step, x)
           order == ReversedRange(index, nSchedulers)
       IN  /\ curr_step' = x
           /\ stepIndex' = index
           /\ stepped' = [k \in 1..Len(order) |-> ListIndex(order[k], nSchedulers)]
    /\ stepCalls' = stepCalls + 1
    /\ UNCHANGED <<ctorArgs, schedStatus, nSchedulers, activation_step>>

(***************************************************************************)
(* buildFeature and buildFeature_batch                                     *)
(***************************************************************************)
FeatIdle ==
    /\ fn = "none"
    /\ pc = "idle"
    /\ sizeSeq = 0
    /\ maxSizeSeq = 1
    /\ downsampling = 1
    /\ strict = FALSE
    /\ batch_size = 1
    /\ start = 0
    /\ out = <<>>
    /\ calls = <<>>
    /\ result = 0

\* Bounds on the inputs of buildFeature and buildFeature_batch.
MaxSizeSeq == 14
MaxDownsampling == 2
MaxChunkFrames == 2
MaxBatchSize == 2

\* Number of frames featureMaker emits for n input samples.
FeatureMakerFrames(n) == n \div downsampling

\* Length of x[-k:] for a dimension of length n (k >= 0): -0 is 0, so
\* x[-0:] is the whole of x, and a k above n is clipped to n.
LastSliceLen(n, k) == IF k = 0 THEN n ELSE Min(n, k)

\* The input of one call: seq, strict, maxSizeSeq, and the featureMaker's
\* downsampling factor (maxSizeSeq a multiple of it).
FeatCall(f, size, maxSize, d, s, b) ==
    /\ pc = "idle"
    /\ fn' = f
    /\ sizeSeq' = size
    /\ maxSizeSeq' = maxSize
    /\ downsampling' = d
    /\ strict' = s
    /\ batch_size' = b
    /\ start' = 0
    /\ out' = <<>>
    /\ calls' = <<>>
    /\ pc' = "loop"
    /\ UNCHANGED result

\* out = torch.cat(out, dim=1); return out
TorchCat(o) ==
    IF o = <<>>
    THEN pc' = "RuntimeError" /\ UNCHANGED result   \* cat of an empty list
    ELSE pc' = "done" /\ result' = SumSeq(o)

\* buildFeature: the guard of one iteration of the while loop.
LoopContinues ==
    /\ start < sizeSeq
    /\ ~(strict /\ start + maxSizeSeq > sizeSeq)

\* buildFeature: one iteration of the while loop.
BuildFeatureLoop ==
    /\ fn = "buildFeature" /\ pc = "loop"
    /\ LoopContinues
    /\ LET end == Min(sizeSeq, start + maxSizeSeq)
       IN  /\ calls' = Append(calls, [lo |-> start, hi |-> end, rows |-> 1])
           /\ out' = Append(out, FeatureMakerFrames(end - start))
    /\ start' = start + maxSizeSeq
    /\ UNCHANGED <<fn, pc, sizeSeq, maxSizeSeq, downsampling, strict,
                   batch_size, result>>

\* buildFeature: after the loop, the strict tail and the concatenation.
BuildFeatureTail ==
    /\ fn = "buildFeature" /\ pc = "loop"
    /\ ~LoopContinues
    /\ IF strict /\ start < sizeSeq
       THEN LET n == LastSliceLen(sizeSeq, maxSizeSeq)
                features == FeatureMakerFrames(n)
                delta == (sizeSeq - start) \div downsampling
                o == Append(out, LastSliceLen(features, delta))
            IN  /\ calls' = Append(calls, [lo |-> sizeSeq - n, hi |-> sizeSeq,
                                           rows |-> 1])
                /\ out' = o
                /\ TorchCat(o)
       ELSE /\ UNCHANGED <<calls, out>>
            /\ TorchCat(out)
    /\ UNCHANGED <<fn, sizeSeq, maxSizeSeq, downsampling, strict, batch_size,
                   start>>

\* buildFeature_batch: n_chunks and n_batches.
NChunks == sizeSeq \div maxSizeSeq
NBatchesFloor(n_chunks, b) == n_chunks \div b
NBatches(n_chunks, b) ==
    IF n_chunks % b # 0 THEN n_chunks \div b + 1 ELSE n_chunks \div b

\* buildFeature_batch: one iteration of the loop over the batches
\* (start holds batch_idx).
BuildFeatureBatchLoop ==
    /\ fn = "buildFeature_batch" /\ pc = "loop"
    /\ start < NBatches(NChunks, batch_size)
    /\ LET lo == start * batch_size * maxSizeSeq
           hi == Min((start + 1) * batch_size * maxSizeSeq, maxSizeSeq * NChunks)
           rows == (hi - lo) \div maxSizeSeq        \* view(-1, 1, maxSizeSeq)
       IN  /\ calls' = Append(calls, [lo |-> lo, hi |-> hi, rows |-> rows])
           /\ out' = out \o [k \in 1..rows |-> FeatureMakerFrames(maxSizeSeq)]
    /\ start' = start + 1
    /\ UNCHANGED <<fn, pc, sizeSeq, maxSizeSeq, downsampling, strict,
                   batch_size, result>>

\* buildFeature_batch: the remaining frames and the concatenation.
BuildFeatureBatchTail ==
    /\ fn = "buildFeature_batch" /\ pc = "loop"
    /\ start >= NBatches(NChunks, batch_size)
    /\ IF sizeSeq % maxSizeSeq >= downsampling
       THEN LET remainders == sizeSeq % maxSizeSeq
            IN  IF strict
                THEN LET n == LastSliceLen(sizeSeq, maxSizeSeq)
                         features == FeatureMakerFrames(n)
                         delta == remainders \div downsampling
                         o == Append(out, LastSliceLen(features, delta))
                     IN  /\ calls' = Append(calls, [lo |-> sizeSeq - n,
                                                    hi |-> sizeSeq, rows |-> 1])
                         /\ out' = o
                         /\ TorchCat(o)
                ELSE LET n == LastSliceLen(sizeSeq, remainders)
                         o == Append(out, FeatureMakerFrames(n))
                     IN  /\ calls' = Append(calls, [lo |-> sizeSeq - n,
                                                    hi |-> sizeSeq, rows |-> 1])
                         /\ out' = o
                         /\ TorchCat(o)
       ELSE /\ UNCHANGED <<calls, out>>
            /\ TorchCat(out)
    /\ UNCHANGED <<fn, sizeSeq, maxSizeSeq, downsampling, strict, batch_size,
                   start>>

(***************************************************************************)
(* loadModel, CPCModelNullspace, ConcatenatedModel                         *)
(*                                                                         *)
(* A checkpoint path is modelled by its directory: loadModel reads the     *)
(* configuration with getCheckpointData(os.path.dirname(path)) and         *)
(* compares directories only.  Every directory holds a checkpoint and a    *)
(* readable checkpoint_args.json.  The calls are those with                *)
(* updateConfig=None and loadSCM=False.                                    *)
(***************************************************************************)
NDirs == 3
MaxHidden == 2
MaxDimInter == 1
MaxLoadLen == 2
MaxPaths == 2

Dirs == 1..NDirs
NoLoad == <<>>                       \* args.load is None
NoModel == [kind |-> "none", dir |-> 0, subs |-> <<>>, cdim |-> 0, edim |-> 0,
            nin |-> 0, nout |-> 0]
NoResult == [status |-> "none", model |-> NoModel, hiddenGar |-> 0,
             hiddenEncoder |-> 0]
NoForward == [status |-> "none", called |-> <<>>, cdim |-> 0, edim |-> 0]

LoadIdle ==
    /\ ckpt = <<>>
    /\ loadCall = [loader |-> "none", paths |-> <<>>, load_nullspace |-> FALSE]
    /\ loadRes = NoResult
    /\ fwdRes = NoForward

\* Non-empty sequences over S of length at most n.
NonEmptySeqs(S, n) == UNION {[1..k -> S] : k \in 1..n}

\* The load lists a checkpoint of directory d can have been trained with:
\* none, its own last checkpoint (a resumed run), or checkpoints of
\* directories saved before it (so that the chains are acyclic).
LoadChoices(d) == {NoLoad, <<d>>} \cup NonEmptySeqs(1..(d - 1), MaxLoadLen)

\* The saved configurations: the fields loadModel and getAR read.  ARinputDim
\* takes the place hiddenEncoder had as the AR network's input dimension.
Configs(d) ==
    [load : LoadChoices(d),
     arMode : {"GRU", "transformer"},
     hiddenGar : 1..MaxHidden,
     hiddenEncoder : {MaxHidden + 1},
     ARinputDim : {MaxHidden + 1},
     dim_inter : 0..MaxDimInter]

\* doLoad of loadModel, for the configuration locArgs read for a path in
\* directory d.
DoLoad(locArgs, d) ==
    /\ locArgs.load # NoLoad
    /\ (Len(locArgs.load) > 1 \/ locArgs.load[1] # d)

\* getAR of cpc/feature_loader.py: what it leaves in args.hiddenGar.
FLGetAR(locArgs) ==
    IF locArgs.arMode = "transformer"
    THEN [locArgs EXCEPT !.hiddenGar = locArgs.ARinputDim]
    ELSE locArgs

\* getAR of train.py.
TrainGetAR(locArgs) ==
    IF locArgs.arMode = "transformer"
    THEN [locArgs EXCEPT !.hiddenGar = locArgs.hiddenEncoder]
    ELSE locArgs

\* The module objects.  cdim and edim are the last dimensions of the context
\* and encoder features the object returns.
CPCModel(d, cdim, edim) ==
    [kind |-> "CPCModel", dir |-> d, subs |-> <<>>, cdim |-> cdim,
     edim |-> edim, nin |-> 0, nout |-> 0]

\* CPCModelNullspace(cpc, nullspace) for a nullspace of shape (nin, nout):
\* self.nullspace = nn.Linear(nin, nout).
CPCModelNullspace(cpc, nin, nout) ==
    [kind |-> "CPCModelNullspace", dir |-> 0, subs |-> <<cpc>>,
     cdim |-> nout, edim |-> nout, nin |-> nin, nout |-> nout]

ConcatenatedModel(models) ==
    [kind |-> "ConcatenatedModel", dir |-> 0, subs |-> models,
     cdim |-> SumSeq([k \in 1..Len(models) |-> models[k].cdim]),
     edim |-> SumSeq([k \in 1..Len(models) |-> models[k].edim]),
     nin |-> 0, nout |-> 0]

Raised(e) == [status |-> e, model |-> NoModel, hiddenGar |-> 0,
              hiddenEncoder |-> 0]

\* The return statements of loadModel.
LoadReturn(models, hiddenGar, hiddenEncoder) ==
    [status |-> "ok",
     model |-> IF Len(models) = 1 THEN models[1] ELSE ConcatenatedModel(models),
     hiddenGar |-> hiddenGar, hiddenEncoder |-> hiddenEncoder]

\* The arguments of the recursive call of loadModel in feature_loader.py:
\* whether perGPUbatchSize is among them, and loadStateDict, load_nullspace.
FLRecursiveArgs == [perGPUbatchSize |-> FALSE, loadStateDict |-> FALSE,
                    load_nullspace |-> FALSE]

\* loadModel of cpc/feature_loader.py.  FLLoadModel binds the arguments
\* (perGPUbatchSize has no default); FLLoadLoop is the loop over
\* pathCheckpoints from the i-th path on, with the values of models,
\* hiddenGar and hiddenEncoder so far.
RECURSIVE FLLoadModel(_, _), FLLoadLoop(_, _, _, _, _, _)
FLLoadModel(pathCheckpoints, args) ==
    IF ~args.perGPUbatchSize
    THEN Raised("TypeError")
    ELSE FLLoadLoop(pathCheckpoints, 1, <<>>, 0, 0, args)

FLLoadLoop(paths, i, models, hiddenGar, hiddenEncoder, args) ==
    IF i > Len(paths)
    THEN LoadReturn(models, hiddenGar, hiddenEncoder)
    ELSE
    LET path == paths[i]
        doLoad == DoLoad(ckpt[path], path)
        locArgs == IF doLoad THEN ckpt[path] ELSE FLGetAR(ckpt[path])
        loaded == FLLoadModel(ckpt[path].load, FLRecursiveArgs)
        \* after "if doLoad: ... else: ..."
        m1 == IF doLoad THEN loaded.model
              ELSE CPCModel(path, locArgs.hiddenGar, locArgs.hiddenEncoder)
        hg1 == IF doLoad THEN hiddenGar + loaded.hiddenGar ELSE hiddenGar
        he1 == IF doLoad THEN hiddenEncoder + loaded.hiddenEncoder
               ELSE hiddenEncoder
        \* "if loadStateDict: ... if load_nullspace: ..."
        wrap == args.loadStateDict /\ args.load_nullspace
        dim_features == hg1
        dim_nullspace == dim_features - locArgs.dim_inter
        m2 == IF wrap THEN CPCModelNullspace(m1, dim_features, dim_nullspace)
              ELSE m1
        hg2 == IF wrap THEN hg1 - locArgs.dim_inter ELSE hg1
        he2 == IF wrap THEN he1 - locArgs.dim_inter ELSE he1
        \* "if not doLoad: ..."
        hg3 == IF doLoad THEN hg2 ELSE hg2 + locArgs.hiddenGar
        he3 == IF doLoad THEN he2 ELSE he2 + locArgs.hiddenEncoder
    IN  IF doLoad /\ loaded.status # "ok"
        THEN loaded                                \* the exception propagates
        ELSE IF wrap /\ dim_nullspace < 0
        THEN Raised("RuntimeError")                \* torch.zeros(n, negative)
        ELSE FLLoadLoop(paths, i + 1, Append(models, m2), hg3, he3, args)

\* loadModel of train.py (loadStateDict only decides whether the state dict
\* is read; cpc_mode "bert" only selects the class of the model object).
RECURSIVE TrainLoadLoop(_, _, _, _, _)
TrainLoadLoop(paths, i, models, hiddenGar, hiddenEncoder) ==
    IF i > Len(paths)
    THEN LoadReturn(models, hiddenGar, hiddenEncoder)
    ELSE
    LET path == paths[i]
        doLoad == DoLoad(ckpt[path], path)
        locArgs == IF doLoad THEN ckpt[path] ELSE TrainGetAR(ckpt[path])
        loaded == TrainLoadLoop(ckpt[path].load, 1, <<>>, 0, 0)
    IN  IF doLoad
        THEN TrainLoadLoop(paths, i + 1, Append(models, loaded.model),
                           hiddenGar + loaded.hiddenGar,
                           hiddenEncoder + loaded.hiddenEncoder)
        ELSE TrainLoadLoop(paths, i + 1,
                           Append(models, CPCModel(path, locArgs.hiddenGar,
                                                   locArgs.hiddenEncoder)),
                           hiddenGar + locArgs.hiddenGar,
                           hiddenEncoder + locArgs.hiddenEncoder)

TrainLoadModel(pathCheckpoints) == TrainLoadLoop(pathCheckpoints, 1, <<>>, 0, 0)

\* A top-level call of feature_loader.loadModel(pathCheckpoints,
\* perGPUbatchSize, load_nullspace=ns).
FLLoadCall(paths, ns) ==
    /\ loadCall.loader = "none"
    /\ loadCall' = [loader |-> "feature_loader", paths |-> paths,
                    load_nullspace |-> ns]
    /\ loadRes' = FLLoadModel(paths, [perGPUbatchSize |-> TRUE,
                                      loadStateDict |-> TRUE,
                                      load_nullspace |-> ns])
    /\ UNCHANGED <<ckpt, fwdRes>>

\* A top-level call of train.loadModel(pathCheckpoints).
TrainLoadCall(paths) ==
    /\ loadCall.loader = "none"
    /\ loadCall' = [loader |-> "train", paths |-> paths,
                    load_nullspace |-> FALSE]
    /\ loadRes' = TrainLoadModel(paths)
    /\ UNCHANGED <<ckpt, fwdRes>>


\* CPCModel.forward(self, arg1, arg2, arg3, arg4, givenCenters, epochNrs,
\* calcPushLoss, onlyConv): the positional arguments it requires, and the
\* values it returns when calcPushLoss and onlyConv are off.
CPCForwardParams == 8
CPCForwardReturns == 9
\* The wrappers and FeatureModule call model(batchData, label) and unpack
\* "cFeature, encodedData, label".
WrapperCallArgs == 2
WrapperUnpack == 3

FwdRaised(e, called) ==
    [status |-> e, called |-> called, cdim |-> 0, edim |-> 0, nret |-> 0]

\* model(...) with nargs positional arguments: the exception raised or the
\* sub-models run (called, in order), the number of values returned and the
\* last dimensions of the context and encoder features.
RECURSIVE Forward(_, _), ConcatForward(_, _, _, _, _)
Forward(m, nargs) ==
    IF m.kind = "CPCModel"
    THEN IF nargs # CPCForwardParams
         THEN FwdRaised("TypeError", <<>>)
         ELSE [status |-> "ok", called |-> <<m.dir>>, cdim |-> m.cdim,
               edim |-> m.edim, nret |-> CPCForwardReturns]
    ELSE IF nargs # WrapperCallArgs
    THEN FwdRaised("TypeError", <<>>)
    ELSE IF m.kind = "CPCModelNullspace"
    THEN LET r == Forward(m.subs[1], WrapperCallArgs)
         IN  IF r.status # "ok" THEN r
             ELSE IF r.nret # WrapperUnpack
             THEN FwdRaised("ValueError", r.called)
             ELSE IF r.cdim # m.nin \/ r.edim # m.nin
             THEN FwdRaised("RuntimeError", r.called)   \* nn.Linear(nin, .)
             ELSE [status |-> "ok", called |-> r.called, cdim |-> m.nout,
                   edim |-> m.nout, nret |-> WrapperUnpack]
    ELSE ConcatForward(m.subs, 1, <<>>, 0, 0)

\* ConcatenatedModel.forward: the loop over self.models from the i-th on.
ConcatForward(models, i, called, cdim, edim) ==
    IF i > Len(models)
    THEN IF models = <<>>
         THEN FwdRaised("RuntimeError", called)         \* torch.cat([])
         ELSE [status |-> "ok", called |-> called, cdim |-> cdim,
               edim |-> edim, nret |-> WrapperUnpack]
    ELSE LET r == Forward(models[i], WrapperCallArgs)
         IN  IF r.status # "ok"
             THEN FwdRaised(r.status, called \o r.called)
             ELSE IF r.nret # WrapperUnpack
             THEN FwdRaised("ValueError", called \o r.called)
             ELSE ConcatForward(models, i + 1, called \o r.called,
                                cdim + r.cdim, edim + r.edim)

\* FeatureModule.forward: self.featureMaker(batchAudio.cuda(), label) on the
\* model feature_loader.loadModel returned.
FeatureModuleForward ==
    /\ loadCall.loader = "feature_loader"
    /\ loadRes.status = "ok"
    /\ fwdRes.status = "none"
    /\ LET r == Forward(loadRes.model, WrapperCallArgs)
       IN  fwdRes' = [status |-> IF r.status = "ok" /\ r.nret # WrapperUnpack
                                 THEN "ValueError" ELSE r.status,
                      called |-> r.called, cdim |-> r.cdim, edim |-> r.edim]
    /\ UNCHANGED <<ckpt, loadCall, loadRes>>


(***************************************************************************)
(* Boundary detectors (cpc/utils/misc.py): kreukBoundaryDetector,          *)
(* jchBoundaryDetector, jhuBoundaryDetector.  A tensor of indices is a     *)
(* sequence; positions in it are counted from 0 as in the source.          *)
(***************************************************************************)
MaxFrames == 5        \* batchSize * seqLen of a kreuk / jch call
MaxJhuBatch == 4
MaxJhuLen == 3

\* minLengthSeq=None, the default of jchBoundaryDetector
NoMinLength == 0 - 1

\* step_reduction as a fraction <<numerator, denominator>>; 0.2 is the default
StepReductions == {<<1, 5>>, <<1, 2>>, <<1, 1>>, <<3, 2>>}

SegIdle ==
    /\ segFn = "none"
    /\ segPc = "idle"
    /\ batchSize = 1
    /\ seqLen = 1
    /\ idx = <<>>
    /\ final_length = 0
    /\ step_reduction = <<1, 5>>
    /\ minLengthSeq = NoMinLength
    /\ justSegmenter = FALSE
    /\ cutpoints = <<>>
    /\ compressed_lens = <<>>
    /\ seq_idx = <<>>
    /\ shortI = 0
    /\ shortJ = 0

Max(a, b) == IF a > b THEN a ELSE b

\* s[i] with i counted from 0
At(s, i) == s[i + 1]

\* s[lo:hi] for 0 <= lo, 0 <= hi
Slice(s, lo, hi) == SubSeq(s, lo + 1, Min(hi, Len(s)))

Range(s) == {s[i] : i \in DOMAIN s}

RECURSIVE SortedSeq(_)
SortedSeq(S) ==
    IF S = {} THEN <<>>
    ELSE LET m == CHOOSE x \in S : \A y \in S : x <= y
         IN  <<m>> \o SortedSeq(S \ {m})

\* torch.unique(t, sorted=True)
Unique(s) == SortedSeq(Range(s))

\* torch.arange(0, B * L + 1, L)
SeqEndIdx(B, L) == [k \in 1..(B + 1) |-> (k - 1) * L]

\* torch.diff(s) ; also cutpoints[1:] - cutpoints[:-1]
Diff(s) == [i \in 1..(Len(s) - 1) |-> s[i + 1] - s[i]]

\* The positions find_peaks can report in a signal of n samples: inner
\* samples, no two of them neighbours.
PeakSets(n) ==
    {P \in SUBSET (1..(n - 2)) : \A p \in P : (p + 1) \notin P}

kreukBoundaryDetector(B, L, found) ==
    /\ segFn' = "kreuk"
    /\ batchSize' = B
    /\ seqLen' = L
    /\ IF L < 2
       THEN \* scores[:, 0] of a B x 0 tensor
            segPc' = "IndexError" /\ idx' = <<>>
       ELSE LET peaks == IF found = {} THEN <<0>> ELSE SortedSeq(found)
            IN  /\ idx' = Unique(peaks \o SeqEndIdx(B, L))
                /\ segPc' = "done"
    /\ UNCHANGED <<final_length, step_reduction, minLengthSeq, justSegmenter,
                   cutpoints, compressed_lens, seq_idx, shortI, shortJ>>

\* Width of x[:, k:] and of x[:, :-k] for x of width w
SliceWidth(w, k) == IF w > k THEN w - k ELSE 0

\* Width of an elementwise operation on widths a and b (-1: not broadcastable)
Broadcast(a, b) ==
    IF a = b THEN a ELSE IF a = 1 THEN b ELSE IF b = 1 THEN a ELSE 0 - 1

\* Width of p in jhuBoundaryDetector for sequences of L frames (L >= 2)
PWidth(L) ==
    LET dW == L - 1
        pt1 == LET w == Broadcast(SliceWidth(dW, 1) + 1, dW) IN Broadcast(w, w)
        pt2 == LET w == Broadcast(SliceWidth(dW, 2) + 2, dW) IN Broadcast(w, w)
    IN  Broadcast(Broadcast(Broadcast(pt1, pt2), dW), pt1)

\* Flattened positions of F.pad(p, (1,0), value=1) at which p itself can be
\* non-zero.  With d of width 1 both differences in pt_1 are empty, pt_1 is
\* the padding alone and p = min(., pt_1) is 0 everywhere.
PNonzeroPositions(B, L) ==
    IF L - 1 >= 2
    THEN {q \in 0..(B * (PWidth(L) + 1) - 1) : q % (PWidth(L) + 1) # 0}
    ELSE {}

jhuBoundaryDetector(B, L, nz) ==
    /\ segFn' = "jhu"
    /\ batchSize' = B
    /\ seqLen' = L
    /\ IF L < 2
       THEN \* torch.min(d_s, dim=-1) of a B x 0 tensor
            segPc' = "IndexError" /\ idx' = <<>>
       ELSE IF PWidth(L) < 0
       THEN segPc' = "RuntimeError" /\ idx' = <<>>
       ELSE LET w == PWidth(L) + 1
                ones == {r * w : r \in 0..(B - 1)}
            IN  /\ idx' = Unique(SortedSeq(ones \cup nz) \o SeqEndIdx(B, L))
                /\ segPc' = "done"
    /\ UNCHANGED <<final_length, step_reduction, minLengthSeq, justSegmenter,
                   cutpoints, compressed_lens, seq_idx, shortI, shortJ>>

\* jchBoundaryDetector up to the merging loop: idx = arange(len(encFlat))
jchBoundaryDetector(B, L, F, sr, mls, js) ==
    /\ segFn' = "jch"
    /\ segPc' = "merge"
    /\ batchSize' = B
    /\ seqLen' = L
    /\ idx' = [k \in 1..(B * L + 1) |-> k - 1]
    /\ final_length' = F
    /\ step_reduction' = sr
    /\ minLengthSeq' = mls
    /\ justSegmenter' = js
    /\ UNCHANGED <<cutpoints, compressed_lens, seq_idx, shortI, shortJ>>

\* len(diffs): F.pad(., (1,1)) of one value per idx[:-2]
DiffsLen(n) == SliceWidth(n, 2) + 2

NumToRetainMin(n) ==
    Min(final_length, (n * step_reduction[1]) \div step_reduction[2])

NumToRetain(n) ==
    Max(final_length, (n * step_reduction[1]) \div step_reduction[2])

\* One iteration of the merging loop; topk may keep any num_to_retain
\* positions of diffs, whose inner values depend on the data.
JchMerge ==
    /\ segFn = "jch" /\ segPc = "merge"
    /\ Len(idx) > final_length
    /\ LET n == Len(idx)
           num_to_retain == NumToRetain(n)
       IN  IF num_to_retain > DiffsLen(n)
           THEN segPc' = "RuntimeError" /\ UNCHANGED idx
           ELSE \E keep \in {S \in SUBSET (1..DiffsLen(n)) :
                                 Cardinality(S) = num_to_retain} :
                    IF \E p \in keep : p > n
                    THEN segPc' = "IndexError" /\ UNCHANGED idx
                    ELSE /\ idx' = [k \in 1..num_to_retain |->
                                        idx[SortedSeq(keep)[k]]]
                         /\ UNCHANGED segPc
    /\ UNCHANGED <<segFn, batchSize, seqLen, final_length, step_reduction,
                   minLengthSeq, justSegmenter, cutpoints, compressed_lens,
                   seq_idx, shortI, shortJ>>

\* Loop exit, minibatch boundaries, return of justSegmenter
JchEnds ==
    /\ segFn = "jch" /\ segPc = "merge"
    /\ ~(Len(idx) > final_length)
    /\ idx' = Unique(idx \o SeqEndIdx(batchSize, seqLen))
    /\ segPc' = IF justSegmenter THEN "done" ELSE "cut"
    /\ UNCHANGED <<segFn, batchSize, seqLen, final_length, step_reduction,
                   minLengthSeq, justSegmenter, cutpoints, compressed_lens,
                   seq_idx, shortI, shortJ>>

\* torch.nonzero((ix % L) == 0), positions counted from 0
Cutpoints(ix, L) ==
    SortedSeq({p \in 0..(Len(ix) - 1) : At(ix, p) % L = 0})

\* .max(0)[1]: position of the first maximal value
ArgMax(s) ==
    CHOOSE i \in 0..(Len(s) - 1) :
        /\ \A j \in 0..(Len(s) - 1) : At(s, j) <= At(s, i)
        /\ \A j \in 0..(i - 1) : At(s, j) < At(s, i)

\* torch.round(total / 2): halves go to the even neighbour
RoundHalf(total) ==
    IF total % 2 = 0 THEN total \div 2
    ELSE IF (total \div 2) % 2 = 0 THEN total \div 2 ELSE total \div 2 + 1

\* segmentsBoundaries = idx[cutpoints[i]:cutpoints[i + 1] + 1 + j]
SegmentsBoundariesFixed(ix, cp, i, j) ==
    Slice(ix, At(cp, i), At(cp, i + 1) + 1)

SegmentsBoundaries(ix, cp, i, j) ==
    Slice(ix, At(cp, i), At(cp, i + 1) + 1 + j)

\* tooShortBatchIdx: the first element from i on with too few segments,
\* Len(lens) when there is none
RECURSIVE NextTooShort(_, _)
NextTooShort(lens, i) ==
    IF i >= Len(lens) THEN Len(lens)
    ELSE IF At(lens, i) < minLengthSeq THEN i
    ELSE NextTooShort(lens, i + 1)

\* Cut indices of each element; which elements are too short
JchCutpoints ==
    /\ segFn = "jch" /\ segPc = "cut"
    /\ cutpoints' = Cutpoints(idx, seqLen)
    /\ compressed_lens' = Diff(cutpoints')
    /\ IF minLengthSeq = NoMinLength
       THEN \* compressed_lens < None
            segPc' = "TypeError" /\ UNCHANGED <<shortI, shortJ>>
       ELSE IF NextTooShort(compressed_lens', 0) < Len(compressed_lens')
       THEN /\ segPc' = "short"
            /\ shortI' = NextTooShort(compressed_lens', 0)
            /\ shortJ' = 0
       ELSE segPc' = "matrices" /\ UNCHANGED <<shortI, shortJ>>
    /\ UNCHANGED <<segFn, batchSize, seqLen, idx, final_length, step_reduction,
                   minLengthSeq, justSegmenter, seq_idx>>

\* One iteration of "for j in range(cuts2Add)" for the too short element i:
\* the largest segment of the element is split.  After the last j the
\* cutpoints behind the element are moved, and after the last element
\* cutpoints and compressed_lens are computed again.
JchAddCut ==
    /\ segFn = "jch" /\ segPc = "short"
    /\ LET i == shortI
           cuts2Add == minLengthSeq - At(compressed_lens, i)
           segmentsBoundaries == SegmentsBoundaries(idx, cutpoints, i, shortJ)
           largestSegmentIdx == ArgMax(Diff(segmentsBoundaries))
           cut == RoundHalf(At(segmentsBoundaries, largestSegmentIdx)
                            + At(segmentsBoundaries, largestSegmentIdx + 1))
           pos == At(cutpoints, i) + largestSegmentIdx + 1
           next == NextTooShort(compressed_lens, i + 1)
       IN  /\ idx' = Slice(idx, 0, pos) \o <<cut>> \o Slice(idx, pos, Len(idx))
           /\ IF shortJ + 1 < cuts2Add
              THEN /\ shortJ' = shortJ + 1
                   /\ UNCHANGED <<shortI, cutpoints, compressed_lens, segPc>>
              ELSE IF next < Len(compressed_lens)
              THEN /\ cutpoints' = [p \in 1..Len(cutpoints) |->
                                       IF p - 1 >= i + 1
                                       THEN cutpoints[p] + cuts2Add
                                       ELSE cutpoints[p]]
                   /\ shortI' = next
                   /\ shortJ' = 0
                   /\ UNCHANGED <<compressed_lens, segPc>>
              ELSE /\ cutpoints' = Cutpoints(idx', seqLen)
                   /\ compressed_lens' = Diff(cutpoints')
                   /\ segPc' = "matrices"
                   /\ UNCHANGED <<shortI, shortJ>>
    /\ UNCHANGED <<segFn, batchSize, seqLen, final_length, step_reduction,
                   minLengthSeq, justSegmenter, seq_idx>>

RECURSIVE MaxSeq(_)
MaxSeq(s) == IF s = <<>> THEN 0 ELSE Max(Head(s), MaxSeq(Tail(s)))

\* seq_idx[seq_idx==0] = encodedData.size(1)
SeqIdxValueKept(v) == v

SeqIdxValue(v) == IF v = 0 THEN seqLen ELSE v

\* seq_idx: per element the segment ends within the element, padded with 0,
\* ends and padding set to seqLen, a leading 0 added
JchMatrices ==
    /\ segFn = "jch" /\ segPc = "matrices"
    /\ LET sizes == Diff(cutpoints)
           ends == [k \in 1..(Len(idx) - 1) |-> idx[k + 1] % seqLen]
           M == MaxSeq(sizes)
           chunk(b) == SubSeq(ends, SumSeq(SubSeq(sizes, 1, b - 1)) + 1,
                              SumSeq(SubSeq(sizes, 1, b)))
           row(b) == [s \in 1..M |->
                         SeqIdxValue(IF s <= sizes[b] THEN chunk(b)[s] ELSE 0)]
       IN  IF SumSeq(sizes) # Len(ends)
           THEN segPc' = "RuntimeError" /\ UNCHANGED seq_idx
           ELSE /\ seq_idx' = [b \in 1..Len(sizes) |-> <<0>> \o row(b)]
                /\ segPc' = IF Len(sizes) = batchSize
                            THEN "done" ELSE "AssertionError"
    /\ UNCHANGED <<segFn, batchSize, seqLen, idx, final_length, step_reduction,
                   minLengthSeq, justSegmenter, cutpoints, compressed_lens,
                   shortI, shortJ>>

\* compress_matrices[b][s][f], b and s counted from 1, the frame f from 0
compress_matrices(b, s, f) ==
    seq_idx[b][s] <= f /\ seq_idx[b][s + 1] > f

(***************************************************************************)
(* Epoch schedules of CPCModel (cpc/model.py): gradualTrainingNormalize    *)
(* and the gradual shortening of forward.  A float is a fraction           *)
(* <<numerator, denominator>> in lowest terms; a tensor of vectors is      *)
(* the length of one of its vectors.                                       *)
(***************************************************************************)
MaxEpoch == 3

\* hierARgradualStart=None
NoGradualStart == 0 - 1

RECURSIVE GCD(_, _)
GCD(a, b) == IF b = 0 THEN a ELSE GCD(b, a % b)


\* n / d, d > 0
Rat(n, d) ==
    LET g == GCD(IF n < 0 THEN 0 - n ELSE n, d) IN <<n \div g, d \div g>>

RatInt(n) == <<n, 1>>
RatAdd(a, b) == Rat(a[1] * b[2] + b[1] * a[2], a[2] * b[2])
RatSub(a, b) == Rat(a[1] * b[2] - b[1] * a[2], a[2] * b[2])
RatMul(a, b) == Rat(a[1] * b[1], a[2] * b[2])
\* a / b, b > 0
RatDiv(a, b) == Rat(a[1] * b[2], a[2] * b[1])
RatLess(a, b) == a[1] * b[2] < b[1] * a[2]
RatLeq(a, b) == a[1] * b[2] <= b[1] * a[2]
RatMax(a, b) == IF RatLess(a, b) THEN b ELSE a

\* The lengths a vector of part1 or part2 can have
PartLengths == {<<0, 1>>, <<1, 2>>, <<1, 1>>, <<2, 1>>}

\* hierARshorten of the model
Shortenings == {<<1, 2>>, <<1, 1>>, <<3, 2>>, <<2, 1>>, <<3, 1>>}

NaN == [nan |-> TRUE, val |-> <<0, 1>>]
Num(v) == [nan |-> FALSE, val |-> v]

EpochIdle ==
    /\ hierARshorten = <<1, 1>>
    /\ hierARgradualStart = NoGradualStart
    /\ normPc = "idle"
    /\ normArgs = [epochNrs |-> <<0, 0>>, part1 |-> <<0, 1>>, part2 |-> <<0, 1>>]
    /\ partOfEpochs = <<0, 1>>
    /\ part1Out = <<0, 1>>
    /\ part2Out = Num(<<0, 1>>)
    /\ shortPc = "idle"
    /\ shortEpochNrs = <<0, 0>>
    /\ shortening = <<1, 1>>

\* partOfEpochs = (currentEpoch + 1) / (totalEpochs + 1)
PartOfEpochs(currentEpoch, totalEpochs) ==
    Rat(currentEpoch + 1, totalEpochs + 1)

\* tensor / divisor: a zero divisor gives inf or, for 0 / 0, nan
TensorDiv(a, divisor) ==
    IF divisor[1] = 0 THEN NaN ELSE Num(RatDiv(a, divisor))

gradualTrainingNormalize(part1, part2, epochNrs) ==
    LET currentEpoch == epochNrs[1]
        totalEpochs == epochNrs[2]
        p == PartOfEpochs(currentEpoch, totalEpochs)
        oneMinus == RatSub(RatInt(1), p)
        part1lengths == RatMax(part1, RatInt(1))      \* clamp(min=1.)
        part1lengthsFinal == RatMul(RatDiv(part1, part1lengths), oneMinus)
        part2lengths == RatMax(part2, RatInt(1))
        scale == TensorDiv(RatMul(part1lengthsFinal, p), oneMinus)
    IN  /\ normPc' = "done"
        /\ normArgs' = [epochNrs |-> epochNrs, part1 |-> part1, part2 |-> part2]
        /\ partOfEpochs' = p
        /\ part1Out' = RatMul(RatDiv(part1, part1lengths), oneMinus)
        /\ part2Out' = IF scale.nan THEN NaN
                       ELSE Num(RatDiv(RatMul(part2, scale.val), part2lengths))
        /\ UNCHANGED <<hierARshorten, hierARgradualStart, shortPc,
                       shortEpochNrs, shortening>>

\* max(epochNow_-start, 0.) / max(epochAll_-start, 1.)
GradualRatioWhole(epochNow, epochAll, gradualStart) ==
    Rat(Max(epochNow - gradualStart, 0), Max(epochAll, 1))

GradualRatio(epochNow, epochAll, gradualStart) ==
    Rat(Max(epochNow - gradualStart, 0), Max(epochAll - gradualStart, 1))

\* The shortening factor computed in forward when hierARshorten is set
ForwardShortening(epochNrs) ==
    /\ shortPc' = "done"
    /\ shortEpochNrs' = epochNrs
    /\ shortening' =
           IF hierARgradualStart = NoGradualStart
           THEN hierARshorten
           ELSE RatMax(RatInt(1),
                       RatAdd(RatInt(1),
                              RatMul(RatSub(hierARshorten, RatInt(1)),
                                     GradualRatio(epochNrs[1], epochNrs[2],
                                                  hierARgradualStart))))
    /\ UNCHANGED <<hierARshorten, hierARgradualStart, normPc, normArgs,
                   partOfEpochs, part1Out, part2Out>>

(***************************************************************************)
(* Pushing points to their closest centre: CPCModel._FCMlikeBelong in its  *)
(* push modes (cpc/model.py) and pushToClosestForBatch                     *)
(* (cpc/utils/misc.py), without centre / point normalization.  A batch is  *)
(* one point; a vector is a sequence of fractions.                         *)
(***************************************************************************)
MaxCenters == 2

\* The coordinates of points and centres, and the push degrees
Vectors == {0 - 1, 0, 1} \X {0 - 1, 0, 1}
Degrees == {<<0 - 1, 1>>, <<0, 1>>, <<1, 4>>, <<1, 1>>, <<3, 1>>}

PushIdle ==
    /\ pushFn = "none"
    /\ pushPc = "idle"
    /\ pushArgs = [point |-> <<0, 0>>, centers |-> <<>>, deg |-> <<0, 1>>,
                   mode |-> "none", pushLossProtosMult |-> FALSE]
    /\ closest = 0
    /\ pushRes = <<>>

RatVec(v) == [i \in 1..Len(v) |-> RatInt(v[i])]

RECURSIVE Dot(_, _)
Dot(u, v) ==
    IF u = <<>> THEN 0 ELSE Head(u) * Head(v) + Dot(Tail(u), Tail(v))

\* square(centroids).sum + square(vecs).sum - 2 * (vecs * centroids).sum
seDistancesToCentroidsOnce(vec, centroid) ==
    Dot(centroid, centroid) + Dot(vec, vec) - Dot(vec, centroid)

seDistancesToCentroids(vec, centroid) ==
    Dot(centroid, centroid) + Dot(vec, vec) - 2 * Dot(vec, centroid)

\* dists.argmin(-1) over the centres; sqrt keeps the order of the distances
ArgMinDist(point, centers) ==
    LET dist(k) == Max(seDistancesToCentroids(point, centers[k + 1]), 0)
    IN  CHOOSE k \in 0..(Len(centers) - 1) :
            /\ \A j \in 0..(Len(centers) - 1) : dist(k) <= dist(j)
            /\ \A j \in 0..(k - 1) : dist(k) < dist(j)

\* _FCMlikeBelong(points, centers, None, pushDeg) and
\* _FCMlikeBelong(points, centers, None, None, None, pushDegWithCenterDetach)
\* of a model with pushLossCenterNorm off
FCMlikeBelong(point, centers, mode, deg, protosMult) ==
    /\ pushFn' = "_FCMlikeBelong"
    /\ pushArgs' = [point |-> point, centers |-> centers, deg |-> deg,
                    mode |-> mode, pushLossProtosMult |-> protosMult]
    /\ IF protosMult
       THEN \* assert pushLossWeight is not None
            pushPc' = "AssertionError" /\ UNCHANGED <<closest, pushRes>>
       ELSE LET c == ArgMinDist(point, centers)
                center == RatVec(centers[c + 1])
                pt == RatVec(point)
            IN  /\ closest' = c
                /\ pushPc' = "done"
                /\ pushRes' =
                       IF mode = "pushDeg"
                       THEN \* pushDeg * diffs + points
                            [i \in 1..Len(pt) |->
                                RatAdd(RatMul(deg, RatSub(center[i], pt[i])),
                                       pt[i])]
                       ELSE \* points + (deg*closestCenters - deg*points)
                            [i \in 1..Len(pt) |->
                                RatAdd(pt[i], RatSub(RatMul(deg, center[i]),
                                                     RatMul(deg, pt[i])))]

\* pushToClosestForBatch(points, centers, deg, doNorm=False, doNormForPush=False)
pushToClosestForBatch(point, centers, deg) ==
    /\ pushFn' = "pushToClosestForBatch"
    /\ pushArgs' = [point |-> point, centers |-> centers, deg |-> deg,
                    mode |-> "deg", pushLossProtosMult |-> FALSE]
    /\ LET c == ArgMinDist(point, centers)
           center == RatVec(centers[c + 1])
           pt == RatVec(point)
       IN  /\ closest' = c
           /\ pushPc' = "done"
           /\ pushRes' = [i \in 1..Len(pt) |->
                             RatAdd(RatMul(deg, RatSub(center[i], pt[i])), pt[i])]

(***************************************************************************)
(* getCheckpointData (cpc/feature_loader.py).  A file name is its first    *)
(* 11 characters, the characters up to the extension (a digit is its       *)
(* number, any other character is -1) and the extension.                   *)
(***************************************************************************)
FileNames ==
    { [head |-> "checkpoint_", stem |-> <<2>>, ext |-> ".pt"],
      [head |-> "checkpoint_", stem |-> <<1, 0>>, ext |-> ".pt"],
      [head |-> "checkpoint_", stem |-> <<0 - 1>>, ext |-> ".pt"],
      [head |-> "checkpoint_", stem |-> <<>>, ext |-> ".pt"],
      [head |-> "checkpoint_", stem |-> <<3>>, ext |-> ".txt"] }

\* get_default_cpc_config()
DefaultConfig == [k \in {"hiddenGar", "CTC"} |-> "default"]

\* What a json file can be: absent, not json, a json object, other json
JsonFiles(objs) ==
    {[state |-> st, content |-> <<>>] : st \in {"missing", "unreadable", "other"}}
        \cup {[state |-> "object", content |-> o] : o \in objs}

NoDirectory == [isdir |-> FALSE]
Directories ==
    {[isdir |-> TRUE, files |-> fs, logs |-> l, args |-> a] :
        fs \in SUBSET FileNames, l \in JsonFiles({[epoch |-> "saved"]}),
        a \in JsonFiles(UNION {[S -> {"saved"}] :
                                  S \in SUBSET DOMAIN DefaultConfig})}

CpIdle ==
    /\ pathDir = NoDirectory
    /\ noLoadPossible = TRUE
    /\ cpPc = "idle"
    /\ cpRes = [kind |-> "none"]

\* int(str) of a string of digits
RECURSIVE IntOf(_)
IntOf(stem) ==
    IF stem = <<>> THEN 0
    ELSE 10 * IntOf(SubSeq(stem, 1, Len(stem) - 1)) + stem[Len(stem)]

\* The files of the directory that name a checkpoint (str.isdigit())
Checkpoints(dir) ==
    {x \in dir.files :
        /\ x.ext = ".pt"
        /\ x.stem # <<>> /\ \A i \in 1..Len(x.stem) : x.stem[i] \in 0..9}

\* checkpoints[-1] after the sort by epoch
LastCheckpoint(dir) ==
    CHOOSE x \in Checkpoints(dir) :
        \A y \in Checkpoints(dir) : IntOf(y.stem) <= IntOf(x.stem)

\* json.load(open(...)): the loaded value, or the exception
JsonLoad(file) ==
    CASE file.state = "missing" -> [exc |-> "FileNotFoundError"]
      [] file.state = "unreadable" -> [exc |-> "JSONDecodeError"]
      [] file.state = "object" -> [value |-> file.content, isObject |-> TRUE]
      [] OTHER -> [value |-> <<>>, isObject |-> FALSE]

LoadFailed(load) == "exc" \in DOMAIN load

\* loadArgs(args, locArgs)
loadArgs(args, locArgs) ==
    [k \in DOMAIN args \cup DOMAIN locArgs |->
        IF k \in DOMAIN locArgs THEN locArgs[k] ELSE args[k]]

getCheckpointData(dir, nlp) ==
    /\ pathDir' = dir
    /\ noLoadPossible' = nlp
    /\ IF ~dir.isdir
       THEN cpPc' = "returned" /\ cpRes' = [kind |-> "None"]
       ELSE IF Checkpoints(dir) = {}
       THEN cpPc' = "returned" /\ cpRes' = [kind |-> "None"]
       ELSE LET data == LastCheckpoint(dir)
                epochCompleted == IntOf(data.stem)
                logsLoad == JsonLoad(dir.logs)
                argsLoad == JsonLoad(dir.args)
                logs == IF LoadFailed(logsLoad) THEN <<>> ELSE logsLoad.value
                args == IF LoadFailed(argsLoad) THEN <<>> ELSE argsLoad.value
            IN  \* except Exception as e: if not noLoadPossible: raise e
                IF LoadFailed(logsLoad) /\ ~nlp
                THEN cpPc' = "raised" /\ cpRes' = [kind |-> logsLoad.exc]
                ELSE IF LoadFailed(argsLoad) /\ ~nlp
                THEN cpPc' = "raised" /\ cpRes' = [kind |-> argsLoad.exc]
                ELSE IF ~LoadFailed(argsLoad) /\ ~argsLoad.isObject
                THEN \* argparse.Namespace(**args)
                     cpPc' = "raised" /\ cpRes' = [kind |-> "TypeError"]
                ELSE /\ cpPc' = "returned"
                     /\ cpRes' = [kind |-> "tuple",
                                  data |-> data, logs |-> logs,
                                  args |-> loadArgs(DefaultConfig, args),
                                  epochCompleted |-> epochCompleted]

\* The parts added after the first three, at rest
RestIdle == SegIdle /\ EpochIdle /\ PushIdle /\ CpIdle

(***************************************************************************)
(* Specifications                                                          *)
(***************************************************************************)
InitSched == SchedIdle /\ FeatIdle /\ LoadIdle /\ RestIdle

SchedConstruct ==
    \E n \in 0..MaxSched, a \in SeqsUpTo(0..MaxAct, MaxSched), c \in 0..MaxAct :
        SchedInit(n, a, c) /\ UNCHANGED <<featVars, loadVars, restVars>>

SchedStepCall == SchedStep /\ UNCHANGED <<featVars, loadVars, restVars>>

NextSched == SchedConstruct \/ SchedStepCall

SpecSched == InitSched /\ [][NextSched]_vars

InitFeat == SchedIdle /\ FeatIdle /\ LoadIdle /\ RestIdle

FeatInputs ==
    \E f \in {"buildFeature", "buildFeature_batch"},
       size \in 0..MaxSizeSeq,
       d \in 1..MaxDownsampling,
       k \in 1..MaxChunkFrames,
       s \in BOOLEAN,
       b \in 1..MaxBatchSize :
        /\ f = "buildFeature" => b = 1          \* buildFeature has no batch_size
        /\ FeatCall(f, size, k * d, d, s, b)
        /\ UNCHANGED <<schedVars, loadVars, restVars>>

FeatLoop == BuildFeatureLoop /\ UNCHANGED <<schedVars, loadVars, restVars>>
FeatTail == BuildFeatureTail /\ UNCHANGED <<schedVars, loadVars, restVars>>
FeatBatchLoop == BuildFeatureBatchLoop /\ UNCHANGED <<schedVars, loadVars, restVars>>
FeatBatchTail == BuildFeatureBatchTail /\ UNCHANGED <<schedVars, loadVars, restVars>>

NextFeat == FeatInputs \/ FeatLoop \/ FeatTail \/ FeatBatchLoop \/ FeatBatchTail

SpecFeat == InitFeat /\ [][NextFeat]_vars

\* The contents of the first n checkpoint directories.
RECURSIVE CheckpointDirs(_)
CheckpointDirs(n) ==
    IF n = 0 THEN {<<>>}
    ELSE {Append(f, c) : f \in CheckpointDirs(n - 1), c \in Configs(n)}

\* The checkpoint directories on disk when loadModel is called.
InitLoad ==
    /\ SchedIdle /\ FeatIdle /\ RestIdle
    /\ ckpt \in CheckpointDirs(NDirs)
    /\ loadCall = [loader |-> "none", paths |-> <<>>, load_nullspace |-> FALSE]
    /\ loadRes = NoResult
    /\ fwdRes = NoForward

LoadFL ==
    \E paths \in NonEmptySeqs(Dirs, MaxPaths), ns \in BOOLEAN :
        FLLoadCall(paths, ns) /\ UNCHANGED <<schedVars, featVars, restVars>>

LoadTrain ==
    \E paths \in NonEmptySeqs(Dirs, MaxPaths) :
        TrainLoadCall(paths) /\ UNCHANGED <<schedVars, featVars, restVars>>

LoadForward == FeatureModuleForward /\ UNCHANGED <<schedVars, featVars, restVars>>

NextLoad == LoadFL \/ LoadTrain \/ LoadForward

SpecLoad == InitLoad /\ [][NextLoad]_vars

(***************************************************************************)
(* Claims about loadModel and the wrapper modules (checked under SpecLoad) *)
(***************************************************************************)
\* The leaf checkpoints reached from a path list, in loading order.
RECURSIVE LeafDirs(_)
LeafDirs(paths) ==
    IF paths = <<>> THEN <<>>
    ELSE LET d == Head(paths)
         IN  (IF DoLoad(ckpt[d], d) THEN LeafDirs(ckpt[d].load) ELSE <<d>>)
             \o LeafDirs(Tail(paths))

\* The configuration of leaf d as the loader holds it once getAR has built the
\* leaf's AR network.
LeafArgs(loader, d) ==
    IF loader = "train" THEN TrainGetAR(ckpt[d]) ELSE FLGetAR(ckpt[d])

LeafSumGar(loader, paths) ==
    LET l == LeafDirs(paths)
    IN  SumSeq([k \in 1..Len(l) |-> LeafArgs(loader, l[k]).hiddenGar])

LeafSumEncoder(loader, paths) ==
    LET l == LeafDirs(paths)
    IN  SumSeq([k \in 1..Len(l) |-> LeafArgs(loader, l[k]).hiddenEncoder])

\* Some path of the call names a checkpoint whose configuration lists other
\* checkpoints in load.
CallHasChain ==
    \E k \in 1..Len(loadCall.paths) :
        DoLoad(ckpt[loadCall.paths[k]], loadCall.paths[k])

\* C1 (as stated): feature_loader.loadModel returns a composed model without
\* raising whenever a checkpoint's configuration lists other checkpoints in
\* load.
C1_ChainsLoad ==
    (loadCall.loader = "feature_loader" /\ ~loadCall.load_nullspace
     /\ CallHasChain)
        => /\ loadRes.status = "ok"
           /\ loadRes.model.kind # "none"

\* C2 (as stated): with load_nullspace off loadModel returns, for every path
\* list, hiddenGar and hiddenEncoder equal to the sums of the leaves'
\* hiddenGar and hiddenEncoder, each leaf counted once per occurrence.
C2_DimensionsAreLeafSums ==
    (loadCall.loader # "none" /\ ~loadCall.load_nullspace)
        => /\ loadRes.status = "ok"
           /\ loadRes.hiddenGar = LeafSumGar(loadCall.loader, loadCall.paths)
           /\ loadRes.hiddenEncoder
                  = LeafSumEncoder(loadCall.loader, loadCall.paths)

\* The order in which a model runs the CPC models it is made of.
RECURSIVE ModelLeaves(_), ModelListLeaves(_)
ModelLeaves(m) ==
    IF m.kind = "CPCModel" THEN <<m.dir>> ELSE ModelListLeaves(m.subs)

ModelListLeaves(models) ==
    IF models = <<>> THEN <<>>
    ELSE ModelLeaves(Head(models)) \o ModelListLeaves(Tail(models))

\* C3 (as stated): forward of a wrapper returned by feature_loader.loadModel
\* runs without raising, calls every sub-model once in list order, and returns
\* features whose last dimensions are the sums of the sub-models' dimensions.
C3_WrappersRun ==
    (fwdRes.status # "none" /\ loadRes.model.kind # "CPCModel")
        => /\ fwdRes.status = "ok"
           /\ fwdRes.called = ModelLeaves(loadRes.model)
           /\ fwdRes.cdim = loadRes.model.cdim
           /\ fwdRes.edim = loadRes.model.edim

\* hiddenGar after the first k paths of a call with load_nullspace on whose
\* paths are all leaves, as C4 describes it: in(k) = out(k-1) + hiddenGar(k),
\* out(k) = in(k) - dim_inter(k).
RECURSIVE NullspaceOut(_)
NullspaceIn(k) ==
    NullspaceOut(k - 1) + LeafArgs("feature_loader", loadCall.paths[k]).hiddenGar
NullspaceOut(k) ==
    IF k = 0 THEN 0
    ELSE NullspaceIn(k) - ckpt[loadCall.paths[k]].dim_inter

\* The k-th model of the list loadModel built.
LoadedModel(k) ==
    IF Len(loadCall.paths) = 1 THEN loadRes.model ELSE loadRes.model.subs[k]

\* C4 (as stated): with load_nullspace=True each loaded model is wrapped in a
\* CPCModelNullspace whose projection maps the context dimension accumulated
\* so far (the loaded checkpoint included) to that dimension minus dim_inter,
\* both non-negative, and the returned hiddenGar is that output dimension.
C4_NullspaceDimensions ==
    (loadCall.loader = "feature_loader" /\ loadCall.load_nullspace
     /\ ~CallHasChain)
        => /\ loadRes.status = "ok"
           /\ \A k \in 1..Len(loadCall.paths) :
                  /\ LoadedModel(k).kind = "CPCModelNullspace"
                  /\ LoadedModel(k).nin = NullspaceIn(k)
                  /\ LoadedModel(k).nout = NullspaceOut(k)
                  /\ LoadedModel(k).nout >= 0
           /\ loadRes.hiddenGar = NullspaceOut(Len(loadCall.paths))

(***************************************************************************)
(* Claims about SchedulerCombiner (checked under SpecSched)                *)
(***************************************************************************)
Sorted(a) == \A i, j \in 1..Len(a) : i < j => a[i] <= a[j]

\* A step() call has been made on a combiner built from a sorted list.
SteppedSorted == schedStatus = "ok" /\ stepCalls > 0 /\ Sorted(activation_step)

\* C5 (as stated): for a sorted activation_step list, no step() call steps a
\* scheduler i while curr_step (after the increment) is lower than
\* activation_step[i].
C5_NoStepBeforeActivation ==
    SteppedSorted =>
        \A k \in 1..Len(stepped) :
            ~(curr_step < activation_step[stepped[k] + 1])

\* C5 (amended): for a sorted activation_step list, the scheduler a step() call
\* steps last is the highest-indexed one whose activation_step is lower than
\* curr_step (after the increment); every scheduler of higher index is stepped
\* earlier in the same call, in decreasing index order, whatever its
\* activation_step.
C5_LastSteppedIsActivated ==
    SteppedSorted =>
        /\ stepped # <<>>
        /\ LET last == stepped[Len(stepped)]
           IN  /\ activation_step[last + 1] < curr_step
               /\ \A i \in 0..(nSchedulers - 1) :
                      i > last => activation_step[i + 1] >= curr_step
               /\ stepped = [k \in 1..(nSchedulers - last) |-> nSchedulers - k]

\* C5 witness: a step() call stepped, before the active scheduler, a scheduler
\* whose activation_step is still ahead of curr_step.
C5_Witness ==
    /\ SteppedSorted
    /\ Len(stepped) >= 2
    /\ curr_step < activation_step[stepped[1] + 1]
    /\ activation_step[stepped[Len(stepped)] + 1] < curr_step

\* C6: the index computed by step() is never negative for an instance the
\* constructor accepted (sorted or not), only schedulers from that index on are
\* stepped, and for a sorted list scheduler i is not stepped once curr_step has
\* passed activation_step[i+1].
C6_Sequential ==
    (schedStatus = "ok" /\ stepCalls > 0) =>
        /\ stepIndex >= 0
        /\ \A k \in 1..Len(stepped) : stepped[k] >= stepIndex
        /\ Sorted(activation_step) =>
               \A i \in 0..(nSchedulers - 2) :
                   curr_step > activation_step[i + 2] =>
                       \A k \in 1..Len(stepped) : stepped[k] # i

\* C6 witness: curr_step has passed the second activation step and the call
\* did not step scheduler 0 while it stepped scheduler 1.
C6_Witness ==
    /\ SteppedSorted
    /\ nSchedulers >= 2
    /\ curr_step > activation_step[2]
    /\ stepIndex >= 1
    /\ \E k \in 1..Len(stepped) : stepped[k] = 1
    /\ \A k \in 1..Len(stepped) : stepped[k] # 0

\* C7 (as stated): the constructor succeeds when the two lists have the same
\* length and the starting curr_step is lower than activation_step[0].
C7_LowerStartAccepted ==
    (/\ schedStatus # "new"
     /\ ctorArgs.n = Len(ctorArgs.activation_step)
     /\ Len(ctorArgs.activation_step) > 0
     /\ ctorArgs.curr_step < ctorArgs.activation_step[1])
        => schedStatus = "ok"

(***************************************************************************)
(* Claims about buildFeature and buildFeature_batch (checked under         *)
(* SpecFeat)                                                               *)
(***************************************************************************)
\* Samples of each row of a featureMaker call.
RowSamples(c) == (c.hi - c.lo) \div c.rows

\* C8 (as stated): with strict=True and sizeSeq >= 1 every call buildFeature
\* makes to featureMaker receives exactly maxSizeSeq samples.
C8_StrictChunksFull ==
    (fn = "buildFeature" /\ strict /\ sizeSeq >= 1) =>
        \A k \in 1..Len(calls) : calls[k].hi - calls[k].lo = maxSizeSeq

\* C9 (as stated): for sizeSeq >= maxSizeSeq buildFeature returns
\* floor(sizeSeq / D) frames, strict or not.
C9_FramesCoverSeqOnce ==
    (fn = "buildFeature" /\ sizeSeq >= maxSizeSeq) =>
        /\ pc # "RuntimeError"
        /\ pc = "done" => result = sizeSeq \div downsampling

\* C10: for sizeSeq >= D, buildFeature_batch passes the full chunks to
\* featureMaker in order, each once, in batches of 1..batch_size rows of
\* maxSizeSeq samples, and returns floor(sizeSeq / D) frames, strict or not.
C10_BatchCoversSeqOnce ==
    (fn = "buildFeature_batch" /\ sizeSeq >= downsampling) =>
        /\ pc # "RuntimeError"
        /\ \A k \in 1..start :
               /\ calls[k].rows \in 1..batch_size
               /\ RowSamples(calls[k]) = maxSizeSeq
               /\ calls[k].hi - calls[k].lo = calls[k].rows * maxSizeSeq
               /\ calls[k].lo = IF k = 1 THEN 0 ELSE calls[k - 1].hi
        /\ pc = "done" =>
               /\ result = sizeSeq \div downsampling
               /\ Len(calls) \in {start, start + 1}
               /\ IF NChunks = 0 THEN start = 0
                  ELSE start > 0 /\ calls[start].hi = NChunks * maxSizeSeq

\* C10 witness: a finished strict call with more chunks than one batch holds, a
\* last batch that is not full, and remaining frames.
C10_Witness ==
    /\ fn = "buildFeature_batch" /\ pc = "done" /\ strict
    /\ NChunks > batch_size
    /\ NChunks % batch_size # 0
    /\ sizeSeq % maxSizeSeq >= downsampling
    /\ downsampling > 1
    /\ Len(calls) = start + 1

(***************************************************************************)
(* Specification of the boundary detectors                                 *)
(***************************************************************************)
OtherIdle == SchedIdle /\ FeatIdle /\ LoadIdle
otherVars == <<schedVars, featVars, loadVars>>
notSegVars == <<otherVars, epochVars, pushVars, cpVars>>

InitSeg == OtherIdle /\ RestIdle

\* The batch shapes of a kreuk / jch call
Shapes == {sh \in (1..MaxFrames) \X (1..MaxFrames) : sh[1] * sh[2] <= MaxFrames}

SegKreuk ==
    /\ segFn = "none"
    /\ \E sh \in Shapes : \E found \in PeakSets(sh[1] * sh[2]) :
           kreukBoundaryDetector(sh[1], sh[2], found)
    /\ UNCHANGED notSegVars

SegJhu ==
    /\ segFn = "none"
    /\ \E B \in 1..MaxJhuBatch, L \in 1..MaxJhuLen :
           \E nz \in SUBSET PNonzeroPositions(B, L) :
               jhuBoundaryDetector(B, L, nz)
    /\ UNCHANGED notSegVars

SegJch ==
    /\ segFn = "none"
    /\ \E sh \in Shapes :
           \E F \in 0..(sh[1] * sh[2] + 1),
              sr \in StepReductions,
              mls \in {NoMinLength} \cup (0..(sh[2] + 1)),
              js \in BOOLEAN :
               jchBoundaryDetector(sh[1], sh[2], F, sr, mls, js)
    /\ UNCHANGED notSegVars

SegMerge == JchMerge /\ UNCHANGED notSegVars
SegEnds == JchEnds /\ UNCHANGED notSegVars
SegCutpoints == JchCutpoints /\ UNCHANGED notSegVars
SegAddCut == JchAddCut /\ UNCHANGED notSegVars
SegMatrices == JchMatrices /\ UNCHANGED notSegVars

NextSeg ==
    \/ SegKreuk \/ SegJhu
    \/ SegJch \/ SegMerge \/ SegEnds \/ SegCutpoints \/ SegAddCut \/ SegMatrices

SpecSeg == InitSeg /\ [][NextSeg]_vars

\* jchBoundaryDetector alone; a merging loop that was entered runs on.
NextJch ==
    SegJch \/ SegMerge \/ SegEnds \/ SegCutpoints \/ SegAddCut \/ SegMatrices

SpecJchRun == InitSeg /\ [][NextJch]_vars /\ WF_vars(SegMerge)

(***************************************************************************)
(* Specification of the epoch schedules                                    *)
(***************************************************************************)
\* epochNrs = (current, total) with 0 <= current <= total
EpochNrs == {e \in (0..MaxEpoch) \X (0..MaxEpoch) : e[1] <= e[2]}

InitNorm == OtherIdle /\ RestIdle

EpochNormalize ==
    /\ \E part1 \in PartLengths, part2 \in PartLengths, e \in EpochNrs :
           gradualTrainingNormalize(part1, part2, e)
    /\ UNCHANGED <<otherVars, segVars, pushVars, cpVars>>

NextNorm == EpochNormalize

SpecNorm == InitNorm /\ [][NextNorm]_vars

\* CPCModel.__init__ with fcmSettings: any hierARshorten, hierARgradualStart
InitShorten ==
    /\ OtherIdle /\ SegIdle /\ PushIdle /\ CpIdle
    /\ hierARshorten \in Shortenings
    /\ hierARgradualStart \in {NoGradualStart} \cup (0..(MaxEpoch + 1))
    /\ normPc = "idle"
    /\ normArgs = [epochNrs |-> <<0, 0>>, part1 |-> <<0, 1>>, part2 |-> <<0, 1>>]
    /\ partOfEpochs = <<0, 1>>
    /\ part1Out = <<0, 1>>
    /\ part2Out = Num(<<0, 1>>)
    /\ shortPc = "idle"
    /\ shortEpochNrs = <<0, 0>>
    /\ shortening = <<1, 1>>

EpochShorten ==
    /\ \E e \in EpochNrs : ForwardShortening(e)
    /\ UNCHANGED <<otherVars, segVars, pushVars, cpVars>>

NextShorten == EpochShorten

SpecShorten == InitShorten /\ [][NextShorten]_vars

(***************************************************************************)
(* Specification of the pushing functions                                  *)
(***************************************************************************)
InitPush == OtherIdle /\ RestIdle

PushFCM ==
    /\ pushFn = "none"
    /\ \E point \in Vectors, centers \in NonEmptySeqs(Vectors, MaxCenters),
          mode \in {"pushDeg", "pushDegWithCenterDetach"},
          deg \in Degrees, protosMult \in BOOLEAN :
           FCMlikeBelong(point, centers, mode, deg, protosMult)
    /\ UNCHANGED <<otherVars, segVars, epochVars, cpVars>>

PushBatch ==
    /\ pushFn = "none"
    /\ \E point \in Vectors, centers \in NonEmptySeqs(Vectors, MaxCenters),
          deg \in Degrees :
           pushToClosestForBatch(point, centers, deg)
    /\ UNCHANGED <<otherVars, segVars, epochVars, cpVars>>

NextPush == PushFCM \/ PushBatch

SpecPush == InitPush /\ [][NextPush]_vars

(***************************************************************************)
(* Specification of getCheckpointData                                      *)
(***************************************************************************)
InitCp == OtherIdle /\ RestIdle

CpCall ==
    /\ cpPc = "idle"
    /\ \E dir \in {NoDirectory} \cup Directories, nlp \in BOOLEAN :
           getCheckpointData(dir, nlp)
    /\ UNCHANGED <<otherVars, segVars, epochVars, pushVars>>

NextCp == CpCall

SpecCp == InitCp /\ [][NextCp]_vars

(***************************************************************************)
(* Claims about the boundary detectors (checked under SpecSeg)             *)
(***************************************************************************)
StrictlyIncreasing(s) == \A i \in 1..(Len(s) - 1) : s[i] < s[i + 1]

\* A detector has returned its index vector
SegmenterReturned ==
    /\ segPc = "done"
    /\ segFn \in {"kreuk", "jhu"} \/ (segFn = "jch" /\ justSegmenter)

\* C11 (as stated): the index vector returned by kreukBoundaryDetector, by
\* jchBoundaryDetector(justSegmenter=True) and by
\* jhuBoundaryDetector(justSegmenter=True) for a batch of B sequences of Len
\* frames is strictly increasing, lies in [0, B*Len] and contains every
\* multiple k*Len, k = 0..B.
C11_BoundariesPreserved ==
    SegmenterReturned =>
        /\ StrictlyIncreasing(idx)
        /\ \A i \in 1..Len(idx) : idx[i] \in 0..(batchSize * seqLen)
        /\ \A k \in 0..batchSize : k * seqLen \in Range(idx)

\* 0 < step_reduction < 1
ReductionInRange ==
    /\ 0 < step_reduction[1]
    /\ step_reduction[1] < step_reduction[2]

\* At the head of the merging loop, resp. with its condition true
AtMergingLoop == segFn = "jch" /\ segPc = "merge"
InMergingLoop == AtMergingLoop /\ Len(idx) > final_length

\* C12: for 0 < step_reduction < 1 the merging loop of jchBoundaryDetector
\* terminates, every iteration keeps a strict subset of the boundary indices
\* it started with, in their order, and when the initial number of
\* boundaries B*Len + 1 exceeds final_length the loop is left with exactly
\* final_length boundaries.
C12_MergingTerminates ==
    /\ [][(AtMergingLoop /\ ReductionInRange) =>
            /\ segPc' \in {"merge", "done", "cut"}
            /\ segPc' = "merge" =>
                   /\ Range(idx') \subseteq Range(idx)
                   /\ Range(idx') # Range(idx)
                   /\ StrictlyIncreasing(idx')
            /\ (segPc' # "merge" /\ batchSize * seqLen + 1 > final_length) =>
                   Len(idx) = final_length]_vars
    /\ (InMergingLoop /\ ReductionInRange) ~> ~InMergingLoop

\* C12 witness: the loop has come down to final_length boundaries in more than
\* one iteration.
C12_Witness ==
    /\ AtMergingLoop
    /\ step_reduction = <<1, 2>>
    /\ final_length > 0
    /\ (batchSize * seqLen + 1) \div 2 > final_length
    /\ Len(idx) = final_length

\* The boundaries of batch element b (counted from 0) among ix, in order
ElementBoundaries(ix, b) ==
    SelectSeq(ix, LAMBDA v : b * seqLen <= v /\ v <= (b + 1) * seqLen)

\* jchBoundaryDetector was asked for matrices with Len >= minLengthSeq
MinLengthFits ==
    /\ segFn = "jch" /\ ~justSegmenter
    /\ minLengthSeq # NoMinLength
    /\ seqLen >= minLengthSeq

\* The step adds one cut inside a largest segment of the element handled
SplitsLargestSegment ==
    LET E == ElementBoundaries(idx, shortI)
    IN  \E k \in 1..(Len(E) - 1) : \E cut \in (E[k] + 1)..(E[k + 1] - 1) :
            /\ \A m \in 1..(Len(E) - 1) : E[m + 1] - E[m] <= E[k + 1] - E[k]
            /\ Range(idx') = Range(idx) \cup {cut}
            /\ Len(idx') = Len(idx) + 1
            /\ StrictlyIncreasing(idx')

\* C13: for Len >= minLengthSeq, once jchBoundaryDetector has handled the too
\* short sequences (and when it returns) every batch element has at least
\* minLengthSeq non-empty segments: compressed_lens has one entry per element,
\* each at least minLengthSeq and equal to the number of segments of the
\* element, and the boundary indices are strictly increasing; every cut that
\* was added splits a largest segment of its element; the call does not fail
\* its final assertion.
C13_ShortSequencesHandled ==
    /\ [](MinLengthFits =>
            /\ segPc # "AssertionError"
            /\ segPc \in {"matrices", "done"} =>
                   /\ StrictlyIncreasing(idx)
                   /\ Len(compressed_lens) = batchSize
                   /\ \A b \in 1..batchSize :
                          /\ compressed_lens[b] >= minLengthSeq
                          /\ compressed_lens[b]
                                 = Len(ElementBoundaries(idx, b - 1)) - 1)
    /\ [][(MinLengthFits /\ segPc = "short") => SplitsLargestSegment]_vars

\* C13 witness: a call that returned after every element of the batch, merged
\* down to a single segment, was cut again.
C13_Witness ==
    /\ MinLengthFits /\ segPc = "done"
    /\ ReductionInRange
    /\ final_length = 0
    /\ batchSize = 2 /\ seqLen = 2 /\ minLengthSeq = 2
    /\ compressed_lens = <<2, 2>>

\* The frames of row s of the compression matrix of element b
RowFrames(b, s) == {f \in 0..(seqLen - 1) : compress_matrices(b, s, f)}

\* jchBoundaryDetector has returned matrices
MatricesReturned == segFn = "jch" /\ ~justSegmenter /\ segPc = "done"

\* C14: the compression matrices returned by jchBoundaryDetector partition
\* the frames: for every batch element each frame 0..Len-1 is in exactly one
\* segment row, the frames of a row are contiguous, rows follow each other in
\* increasing frame order (row s holds the frames between the boundaries s and
\* s+1 of the element), and compressed_lens[b] is the number of non-empty
\* rows of element b.
C14_MatricesPartitionFrames ==
    MatricesReturned =>
        /\ Len(seq_idx) = batchSize
        /\ \A b \in 1..batchSize :
               LET rows == 1..(Len(seq_idx[b]) - 1)
                   E == ElementBoundaries(idx, b - 1)
               IN  /\ \A f \in 0..(seqLen - 1) :
                          Cardinality({s \in rows : f \in RowFrames(b, s)}) = 1
                   /\ \A s \in rows : \A f, g \in RowFrames(b, s) :
                          \A h \in f..g : h \in RowFrames(b, s)
                   /\ \A s, t \in rows :
                          s < t => \A f \in RowFrames(b, s), g \in RowFrames(b, t) :
                                       f < g
                   /\ \A s \in 1..(Len(E) - 1) :
                          RowFrames(b, s) = {v - (b - 1) * seqLen :
                                                v \in E[s]..(E[s + 1] - 1)}
                   /\ compressed_lens[b]
                          = Cardinality({s \in rows : RowFrames(b, s) # {}})

\* C14 witness: matrices returned for a batch whose elements have different
\* numbers of segments, so that the shorter one has padding rows.
C14_Witness ==
    /\ MatricesReturned
    /\ batchSize = 2
    /\ compressed_lens[1] > compressed_lens[2]
    /\ compressed_lens[2] > 0

(***************************************************************************)
(* Claims about the epoch schedules (checked under SpecNorm, SpecShorten)   *)
(***************************************************************************)
\* C15 (as stated): for 0 <= currentEpoch <= totalEpochs,
\* gradualTrainingNormalize divides by totalEpochs + 1 and by
\* 1 - partOfEpochs, both non-zero, so that no returned value is NaN, and
\* partOfEpochs is strictly increasing in currentEpoch.
C15_NoDivisionByZero ==
    normPc = "done" =>
        LET currentEpoch == normArgs.epochNrs[1]
            totalEpochs == normArgs.epochNrs[2]
        IN  /\ totalEpochs + 1 # 0
            /\ partOfEpochs = Rat(currentEpoch + 1, totalEpochs + 1)
            /\ RatSub(RatInt(1), partOfEpochs) # RatInt(0)
            /\ ~part2Out.nan
            /\ \A e \in 0..(currentEpoch - 1) :
                   RatLess(PartOfEpochs(e, totalEpochs), partOfEpochs)

\* hierARshorten >= 1
ShortenAtLeastOne == RatLeq(RatInt(1), hierARshorten)

\* C16: with hierARshorten >= 1 and hierARgradualStart set, for integer
\* epochs 0 <= epochNow <= epochAll the shortening factor of forward is
\* exactly 1 for epochNow <= hierARgradualStart, is non-decreasing in
\* epochNow, never exceeds hierARshorten and equals hierARshorten at
\* epochNow = epochAll when epochAll > hierARgradualStart; with
\* hierARgradualStart unset it is always hierARshorten.
C16_GradualShortening ==
    /\ []((shortPc = "done" /\ ShortenAtLeastOne) =>
            LET epochNow == shortEpochNrs[1]
                epochAll == shortEpochNrs[2]
            IN  IF hierARgradualStart = NoGradualStart
                THEN shortening = hierARshorten
                ELSE /\ epochNow <= hierARgradualStart => shortening = RatInt(1)
                     /\ RatLeq(shortening, hierARshorten)
                     /\ (epochNow = epochAll /\ epochAll > hierARgradualStart)
                            => shortening = hierARshorten)
    /\ [][(/\ shortPc = "done" /\ ShortenAtLeastOne
           /\ shortEpochNrs'[2] = shortEpochNrs[2]
           /\ shortEpochNrs'[1] >= shortEpochNrs[1])
              => RatLeq(shortening, shortening')]_vars

\* C16 witness: an epoch strictly between the start epoch and the last one,
\* with a factor strictly between 1 and hierARshorten.
C16_Witness ==
    /\ shortPc = "done"
    /\ hierARgradualStart # NoGradualStart
    /\ 0 < hierARgradualStart
    /\ hierARgradualStart < shortEpochNrs[1]
    /\ shortEpochNrs[1] < shortEpochNrs[2]
    /\ RatLess(RatInt(1), shortening)
    /\ RatLess(shortening, hierARshorten)

(***************************************************************************)
(* Claims about pushing (checked under SpecPush)                           *)
(***************************************************************************)
\* The squared distance of two vectors of fractions
RatDistSq(u, v) ==
    IF Len(u) = 1
    THEN RatMul(RatSub(u[1], v[1]), RatSub(u[1], v[1]))
    ELSE RatAdd(RatMul(RatSub(u[1], v[1]), RatSub(u[1], v[1])),
                RatMul(RatSub(u[2], v[2]), RatSub(u[2], v[2])))

\* C17: without normalization, _FCMlikeBelong in its push modes and
\* pushToClosestForBatch return for the point p the value (1 - d) * p + d * c
\* where c is a centre at minimal distance from p; so d = 0 returns p,
\* d = 1 returns c, and for 0 <= d <= 1 the result is not farther from c
\* than p was.
C17_PushedTowardsClosest ==
    pushPc = "done" =>
        LET pt == RatVec(pushArgs.point)
            c == RatVec(pushArgs.centers[closest + 1])
            d == pushArgs.deg
        IN  /\ \A k \in 1..Len(pushArgs.centers) :
                   RatLeq(RatDistSq(pt, c),
                          RatDistSq(pt, RatVec(pushArgs.centers[k])))
            /\ pushRes = [i \in 1..Len(pt) |->
                              RatAdd(RatMul(RatSub(RatInt(1), d), pt[i]),
                                     RatMul(d, c[i]))]
            /\ d = RatInt(0) => pushRes = pt
            /\ d = RatInt(1) => pushRes = c
            /\ (RatLeq(RatInt(0), d) /\ RatLeq(d, RatInt(1))) =>
                   RatLeq(RatDistSq(pushRes, c), RatDistSq(pt, c))

\* C17 witness: a point pushed part of the way to the nearer of two centres
\* at different distances, the farther centre coming first.
C17_Witness ==
    /\ pushPc = "done"
    /\ Len(pushArgs.centers) = 2
    /\ closest = 1
    /\ pushArgs.deg = <<1, 4>>
    /\ pushRes # RatVec(pushArgs.point)
    /\ pushFn = "_FCMlikeBelong"
    /\ pushArgs.mode = "pushDegWithCenterDetach"

(***************************************************************************)
(* Claims about getCheckpointData (checked under SpecCp)                   *)
(***************************************************************************)
\* A json file that is missing or unreadable
Unloadable(file) == file.state \in {"missing", "unreadable"}

\* C18 (as stated): getCheckpointData returns None when the directory does
\* not exist or holds no checkpoint file; otherwise, when
\* checkpoint_logs.json or checkpoint_args.json is missing or unreadable, it
\* raises that exception if noLoadPossible is False, and if noLoadPossible
\* is True it does not raise and returns empty logs / the default
\* configuration together with the path and epoch of the last checkpoint.
C18_CheckpointErrorHandling ==
    cpPc # "idle" =>
        IF ~pathDir.isdir \/ Checkpoints(pathDir) = {}
        THEN cpPc = "returned" /\ cpRes = [kind |-> "None"]
        ELSE (Unloadable(pathDir.logs) \/ Unloadable(pathDir.args)) =>
                IF ~noLoadPossible
                THEN /\ cpPc = "raised"
                     /\ cpRes.kind \in {"FileNotFoundError", "JSONDecodeError"}
                ELSE /\ cpPc = "returned"
                     /\ cpRes.kind = "tuple"
                     /\ Unloadable(pathDir.logs) => cpRes.logs = <<>>
                     /\ Unloadable(pathDir.args) => cpRes.args = DefaultConfig
                     /\ cpRes.data = LastCheckpoint(pathDir)
                     /\ cpRes.epochCompleted = IntOf(cpRes.data.stem)

====
